---- MODULE Spec2Model ----
(***************************************************************************)
(* Model of the team-name voting app (src/main.py).                        *)
(*                                                                         *)
(* The two stores are the workbooks submissions.xlsx and votes.xlsx.  A    *)
(* store is the sequence of the data rows of the sheet; a cell holds a     *)
(* text, written here as a sequence of one-character strings so that       *)
(* strip() and lower() are computed character by character, and a blank    *)
(* cell is the empty text.  A data frame is what read_excel makes of the   *)
(* sheet: pandas turns a blank cell, and every cell whose text is one of   *)
(* its default NA markers ("NA", "nan", "null", "None", ...), into the     *)
(* missing value NaN; to_excel writes NaN back as a blank cell.            *)
(***************************************************************************)
EXTENDS Integers, Sequences, FiniteSets, TLC

VARIABLES submissions, votes, votes_state, now, result, unreadable, calls

vars == <<submissions, votes, votes_state, now, result, unreadable, calls>>

(***************************************************************************)
(* Bounds of the model.                                                    *)
(***************************************************************************)
MaxSubs == 3

MaxTime == 1

MaxSel == 2

MaxRemaining == 4

MaxSeed == 2

MaxSeedSubs == 3

MaxSeedVotes == 3

NumCallers == 3

(***************************************************************************)
(* Program constants.  Time is counted in ticks of the wall clock; the     *)
(* opening instant is tick 1, so tick 0 lies before it.                    *)
(***************************************************************************)
VOTING_START == 1

InitialBudget == 3

(***************************************************************************)
(* Texts.                                                                  *)
(***************************************************************************)
NaN == <<"<NaN>">>

Whitespace == {" "}

lowerChar(c) ==
  CASE c = "A" -> "a"
    [] c = "B" -> "b"
    [] c = "C" -> "c"
    [] c = "L" -> "l"
    [] c = "N" -> "n"
    [] c = "U" -> "u"
    [] c = "Z" -> "z"
    [] OTHER -> c

lower(s) == [i \in 1..Len(s) |-> lowerChar(s[i])]

RECURSIVE lstrip(_)
lstrip(s) ==
  IF s # <<>> /\ s[1] \in Whitespace THEN lstrip(Tail(s)) ELSE s

RECURSIVE rstrip(_)
rstrip(s) ==
  IF s # <<>> /\ s[Len(s)] \in Whitespace
    THEN rstrip(SubSeq(s, 1, Len(s) - 1))
    ELSE s

strip(s) == rstrip(lstrip(s))

RECURSIVE Text(_)
Text(s) == IF s = <<>> THEN "" ELSE s[1] \o Text(Tail(s))

(***************************************************************************)
(* The workbook round trip.                                                *)
(***************************************************************************)
STR_NA_VALUES ==
  { <<>>,
    <<"N", "A">>,
    <<"N", "/", "A">>,
    <<"n", "/", "a">>,
    <<"n", "a", "n">>,
    <<"N", "a", "N">>,
    <<"n", "u", "l", "l">>,
    <<"N", "U", "L", "L">>,
    <<"N", "o", "n", "e">> }

read_cell(c) == IF c \in STR_NA_VALUES THEN NaN ELSE c

write_cell(v) == IF v = NaN THEN <<>> ELSE v

astype_str(v) == IF v = NaN THEN <<"n", "a", "n">> ELSE v

read_submissions(sheet) ==
  [i \in 1..Len(sheet) |->
     [Name |-> read_cell(sheet[i].Name),
      Tag |-> read_cell(sheet[i].Tag),
      Timestamp |-> sheet[i].Timestamp]]

write_submissions(df) ==
  [i \in 1..Len(df) |->
     [Name |-> write_cell(df[i].Name),
      Tag |-> write_cell(df[i].Tag),
      Timestamp |-> df[i].Timestamp]]

read_votes(sheet) == [i \in 1..Len(sheet) |-> read_cell(sheet[i])]

write_votes(df) == [i \in 1..Len(df) |-> write_cell(df[i])]

(***************************************************************************)
(* A workbook that cannot be read (damaged, or gone) is named in           *)
(* unreadable: read_excel raises, and the handlers go on with an empty     *)
(* data frame.  to_excel replaces the file, which can be read again.       *)
(***************************************************************************)
SubmissionsFile == "submissions.xlsx"

VotesFile == "votes.xlsx"

Files == {SubmissionsFile, VotesFile}

load_sheet_ignoring_fault(file, sheet, broken) == sheet

load_sheet(file, sheet, broken) == IF file \in broken THEN <<>> ELSE sheet

(***************************************************************************)
(* add_name                                                                *)
(***************************************************************************)
Warn == "(!) "

Ok == "(ok) "

existing_names(sub_df) ==
  { lower(astype_str(sub_df[i].Name)) : i \in 1..Len(sub_df) }

add_name(name_in, tag_in, sheet, clock) ==
  LET name == strip(name_in)
      tag == strip(tag_in)
      sub_df == read_submissions(sheet)
      normalized_name == lower(name)
      timestamp == clock
      new_entry == [Name |-> name, Tag |-> tag, Timestamp |-> timestamp]
  IN  IF name = <<>>
        THEN [message |-> Warn \o "Please enter a team name.",
              accepted |-> FALSE,
              submissions |-> sheet]
      ELSE IF tag = <<>>
        THEN [message |-> Warn \o "Please include an anonymous tag.",
              accepted |-> FALSE,
              submissions |-> sheet]
      ELSE IF normalized_name \in existing_names(sub_df)
        THEN [message |-> Warn \o "The name '" \o Text(name)
                            \o "' has already been submitted.",
              accepted |-> FALSE,
              submissions |-> sheet]
      ELSE [message |-> Ok \o "Team name '" \o Text(name) \o "' with tag '"
                          \o Text(tag) \o "' submitted successfully at "
                          \o ToString(timestamp) \o "!",
            accepted |-> TRUE,
            submissions |-> write_submissions(Append(sub_df, new_entry))]

NameInputs ==
  { <<" ">>, <<"A">>, <<" ", "a">>, <<"B">>, <<"C">>, <<"N", "A">> }

TagInputs == { <<" ">>, <<"t", " ">> }

AddName ==
  \E name \in NameInputs, tag \in TagInputs :
    LET found == load_sheet(SubmissionsFile, submissions, unreadable)
        r == add_name(name, tag, found, now)
    IN  /\ r.accepted => Len(r.submissions) <= MaxSubs
        /\ submissions' = IF r.accepted THEN r.submissions ELSE submissions
        /\ unreadable' = IF r.accepted THEN unreadable \ {SubmissionsFile}
                                       ELSE unreadable
        /\ result' = [op |-> "add_name", name |-> name, tag |-> tag,
                      accepted |-> r.accepted, message |-> r.message,
                      readable |-> SubmissionsFile \notin unreadable]
        /\ UNCHANGED <<votes, votes_state, now, calls>>

(***************************************************************************)
(* cast_votes                                                              *)
(*                                                                         *)
(* The selection is None, a single text, or a list of texts: kind tells    *)
(* which, and v holds the texts (none for None, the one text for a str).   *)
(***************************************************************************)
None == [kind |-> "None", v |-> <<>>]

Str(name) == [kind |-> "str", v |-> <<name>>]

List(names) == [kind |-> "list", v |-> names]

is_empty_selection_none_only(selected_names) == selected_names = None

is_empty_selection(selected_names) ==
  selected_names = None \/ selected_names = List(<<>>)

RECURSIVE without_repeats(_)
without_repeats(s) ==
  IF s = <<>> THEN <<>>
  ELSE LET init == without_repeats(SubSeq(s, 1, Len(s) - 1))
       IN  IF \E i \in 1..Len(init) : init[i] = s[Len(s)]
             THEN init
             ELSE Append(init, s[Len(s)])

as_list_without_repeats(selected_names) ==
  IF selected_names.kind = "str" THEN <<selected_names.v[1]>>
  ELSE without_repeats(selected_names.v)

as_list(selected_names) ==
  IF selected_names.kind = "str" THEN <<selected_names.v[1]>>
  ELSE selected_names.v

before_opening_flipped(clock) == clock > VOTING_START

before_opening(clock) == clock < VOTING_START

budget_check_off_by_one(selected, votes_remaining) ==
  IF votes_remaining <= 0 THEN "none_remaining"
  ELSE IF Len(selected) > votes_remaining + 1 THEN "too_many"
  ELSE "ok"

budget_check_votes_used(selected, votes_used) ==
  IF votes_used >= InitialBudget THEN "none_remaining"
  ELSE IF Len(selected) > InitialBudget - votes_used THEN "too_many"
  ELSE "ok"

budget_check(selected, votes_remaining) ==
  IF votes_remaining <= 0 THEN "none_remaining"
  ELSE IF Len(selected) > votes_remaining THEN "too_many"
  ELSE "ok"

remaining_after_one_cast(selected, votes_remaining) == votes_remaining - 1

remaining_after(selected, votes_remaining) == votes_remaining - Len(selected)

success_message_singular_left(selected, new_remaining) ==
  (IF new_remaining = 1 THEN Ok \o "Vote recorded!"
                        ELSE Ok \o "Votes recorded!")
  \o (IF new_remaining > 0
        THEN " You have " \o ToString(new_remaining) \o " vote(s) left."
        ELSE " You have no votes left.")

success_message(selected, new_remaining) ==
  (IF Len(selected) = 1 THEN Ok \o "Vote recorded!"
                        ELSE Ok \o "Votes recorded!")
  \o (IF new_remaining > 0
        THEN " You have " \o ToString(new_remaining) \o " vote(s) left."
        ELSE " You have no votes left.")

cast_votes(selected_names, votes_remaining, sheet, clock) ==
  IF before_opening(clock)
    THEN [remaining |-> votes_remaining,
          message |-> Warn \o "Voting is not open yet. Please come back after "
                        \o ToString(VOTING_START) \o ".",
          accepted |-> FALSE,
          votes |-> sheet]
  ELSE IF is_empty_selection(selected_names)
    THEN [remaining |-> votes_remaining,
          message |-> Warn \o "No names selected. Please choose up to 3.",
          accepted |-> FALSE,
          votes |-> sheet]
  ELSE LET selected == as_list(selected_names)
           votes_df == read_votes(sheet)
           new_remaining == remaining_after(selected, votes_remaining)
           check == budget_check(selected, votes_remaining)
       IN  IF check = "none_remaining"
             THEN [remaining |-> votes_remaining,
                   message |-> Warn \o "You have no votes remaining.",
                   accepted |-> FALSE,
                   votes |-> sheet]
           ELSE IF check = "too_many"
             THEN [remaining |-> votes_remaining,
                   message |-> Warn \o "You can only vote for "
                                 \o ToString(votes_remaining)
                                 \o " more name(s).",
                   accepted |-> FALSE,
                   votes |-> sheet]
           ELSE [remaining |-> new_remaining,
                 message |-> success_message(selected, new_remaining),
                 accepted |-> TRUE,
                 votes |-> write_votes(votes_df \o selected)]

VoteNames == { <<"A">>, <<"B">> }

NameLists == UNION { [1..n -> VoteNames] : n \in 0..MaxSel }

Selections ==
  {None} \cup { Str(n) : n \in VoteNames } \cup { List(l) : l \in NameLists }

(***************************************************************************)
(* The vote button of one session: the session state votes_state is fed    *)
(* to cast_votes and takes the returned value.                             *)
(***************************************************************************)
CastVotes ==
  \E selected_names \in Selections :
    LET found == load_sheet(VotesFile, votes, unreadable)
        r == cast_votes(selected_names, votes_state, found, now)
    IN  /\ votes' = IF r.accepted THEN r.votes ELSE votes
        /\ unreadable' = IF r.accepted THEN unreadable \ {VotesFile}
                                       ELSE unreadable
        /\ votes_state' = r.remaining
        /\ result' = [op |-> "cast_votes", selected |-> selected_names,
                      given |-> votes_state, accepted |-> r.accepted,
                      remaining |-> r.remaining, message |-> r.message]
        /\ UNCHANGED <<submissions, now, calls>>

(***************************************************************************)
(* get_leaderboard                                                         *)
(***************************************************************************)
dropna(s) == SelectSeq(s, LAMBDA v : v # NaN)

RECURSIVE unique(_)
unique(s) ==
  IF s = <<>> THEN <<>>
  ELSE LET init == unique(SubSeq(s, 1, Len(s) - 1))
           last == s[Len(s)]
       IN  IF \E i \in 1..Len(init) : init[i] = last
             THEN init
             ELSE Append(init, last)

value_count(names, name) ==
  Cardinality({ i \in 1..Len(names) : names[i] = name })

Remove(s, i) == SubSeq(s, 1, i - 1) \o SubSeq(s, i + 1, Len(s))

RECURSIVE sort_by_votes_unstable(_)
sort_by_votes_unstable(rows) ==
  IF rows = <<>> THEN <<>>
  ELSE LET top == CHOOSE i \in 1..Len(rows) :
                    /\ \A j \in 1..Len(rows) : rows[j][2] <= rows[i][2]
                    /\ \A j \in (i + 1)..Len(rows) : rows[j][2] < rows[i][2]
       IN  <<rows[top]>> \o sort_by_votes_unstable(Remove(rows, top))

RECURSIVE sort_by_votes(_)
sort_by_votes(rows) ==
  IF rows = <<>> THEN <<>>
  ELSE LET top == CHOOSE i \in 1..Len(rows) :
                    /\ \A j \in 1..Len(rows) : rows[j][2] <= rows[i][2]
                    /\ \A j \in 1..(i - 1) : rows[j][2] < rows[i][2]
       IN  <<rows[top]>> \o sort_by_votes(Remove(rows, top))

all_names(sub_sheet) ==
  LET sub_df == read_submissions(sub_sheet)
  IN  unique(dropna([i \in 1..Len(sub_df) |-> astype_str(sub_df[i].Name)]))

voted_names(votes_sheet) ==
  LET votes_df == read_votes(votes_sheet)
  IN  [i \in 1..Len(votes_df) |-> astype_str(votes_df[i])]

leaderboard_data_orphans_first(sub_sheet, votes_sheet) ==
  LET known == all_names(sub_sheet)
      voted == voted_names(votes_sheet)
      orphans == SelectSeq(unique(voted),
                           LAMBDA n : \A i \in 1..Len(known) : known[i] # n)
      names == orphans \o known
  IN  [i \in 1..Len(names) |-> <<names[i], value_count(voted, names[i])>>]

leaderboard_data_no_orphans(sub_sheet, votes_sheet) ==
  LET known == all_names(sub_sheet)
      voted == voted_names(votes_sheet)
  IN  [i \in 1..Len(known) |-> <<known[i], value_count(voted, known[i])>>]

leaderboard_data(sub_sheet, votes_sheet) ==
  LET known == all_names(sub_sheet)
      voted == voted_names(votes_sheet)
      orphans == SelectSeq(unique(voted),
                           LAMBDA n : \A i \in 1..Len(known) : known[i] # n)
      names == known \o orphans
  IN  [i \in 1..Len(names) |-> <<names[i], value_count(voted, names[i])>>]

get_leaderboard(sub_sheet, votes_sheet) ==
  sort_by_votes(leaderboard_data(sub_sheet, votes_sheet))

GetLeaderboard_saving ==
  /\ result' = [op |-> "get_leaderboard",
                rows |-> get_leaderboard(
                           load_sheet(SubmissionsFile, submissions, unreadable),
                           load_sheet(VotesFile, votes, unreadable)),
                again |-> result.op = "get_leaderboard"]
  /\ submissions' = write_submissions(read_submissions(submissions))
  /\ votes' = write_votes(read_votes(votes))
  /\ UNCHANGED <<votes_state, now, unreadable, calls>>

GetLeaderboard ==
  /\ result' = [op |-> "get_leaderboard",
                rows |-> get_leaderboard(
                           load_sheet(SubmissionsFile, submissions, unreadable),
                           load_sheet(VotesFile, votes, unreadable)),
                again |-> result.op = "get_leaderboard"]
  /\ UNCHANGED <<submissions, votes, votes_state, now, unreadable, calls>>

(***************************************************************************)
(* The wall clock.                                                         *)
(***************************************************************************)
Tick ==
  /\ now < MaxTime
  /\ now' = now + 1
  /\ UNCHANGED <<submissions, votes, votes_state, result, unreadable, calls>>

(***************************************************************************)
(* The add_name calls in flight, one per caller: idle, or between its      *)
(* read of the workbook and its rewrite (seen is the sheet it read), or    *)
(* returned.  The handlers above run each call in one step.                *)
(***************************************************************************)
Callers == 1..NumCallers

IdleCall ==
  [pc |-> "idle", name |-> <<>>, tag |-> <<>>, seen |-> <<>>,
   readable |-> TRUE, accepted |-> FALSE, message |-> ""]

NoCalls == [p \in Callers |-> IdleCall]

Init ==
  /\ submissions = <<>>
  /\ votes = <<>>
  /\ votes_state = InitialBudget
  /\ now = 0
  /\ result = [op |-> "launch"]
  /\ unreadable = {}
  /\ calls = NoCalls

Next ==
  \/ AddName
  \/ CastVotes
  \/ GetLeaderboard
  \/ Tick

Spec == Init /\ [][Next]_vars

(***************************************************************************)
(* cast_votes as a function of its arguments: the remaining budget it is   *)
(* handed, the clock and the votes sheet it finds are drawn from bounded   *)
(* sets, and each call is fed what the previous one returned.              *)
(***************************************************************************)
SeedCells == { <<"A">>, <<"n", "a", "n">> }

SeedSheets == UNION { [1..n -> SeedCells] : n \in 0..MaxSeed }

InitCast ==
  /\ submissions = <<>>
  /\ votes \in SeedSheets
  /\ votes_state \in (0 - 1)..MaxRemaining
  /\ now \in 0..MaxTime
  /\ result = [op |-> "launch"]
  /\ unreadable = {}
  /\ calls = NoCalls

NextCast ==
  \/ CastVotes
  \/ Tick

SpecCast == InitCast /\ [][NextCast]_vars

(***************************************************************************)
(* One session from a fresh launch, as a sequence of cast_votes calls at   *)
(* any times.                                                              *)
(***************************************************************************)
NextSession ==
  \/ CastVotes
  \/ Tick

SpecSession == Init /\ [][NextSession]_vars

(***************************************************************************)
(* get_leaderboard as a function of the two stores: the workbooks it       *)
(* finds are drawn from bounded sets of sheets (a row of the submissions   *)
(* sheet may hold a name more than once, or the text "NA"; a vote may      *)
(* name a team without a submission, or be a blank cell, as a vote for an  *)
(* NA marker is after the sheet was rewritten), and it is called again     *)
(* and again.                                                              *)
(***************************************************************************)
SubCells == { <<"A">>, <<"B">>, <<"C">>, <<"N", "A">> }

BoardVoteCells == { <<>>, <<"A">>, <<"a">>, <<"B">>, <<"Z">> }

SubSheets ==
  UNION { [1..n -> { [Name |-> c, Tag |-> <<"t">>, Timestamp |-> 0] :
                       c \in SubCells }] : n \in 0..MaxSeedSubs }

VoteSheets == UNION { [1..n -> BoardVoteCells] : n \in 0..MaxSeedVotes }

InitBoard ==
  /\ submissions \in SubSheets
  /\ votes \in VoteSheets
  /\ votes_state = InitialBudget
  /\ now = 0
  /\ result = [op |-> "launch"]
  /\ unreadable = {}
  /\ calls = NoCalls

NextBoard == GetLeaderboard

SpecBoard == InitBoard /\ [][NextBoard]_vars

(***************************************************************************)
(* add_name calls of several callers, interleaved at the granularity of    *)
(* the workbook accesses: RaceRead runs a call up to and including its     *)
(* read_excel, RaceWrite runs it from there to its return.  Nothing in     *)
(* the code orders the read of one call and the rewrite of another.  Each  *)
(* caller makes one call, so NumCallers bounds the number of calls.        *)
(***************************************************************************)
RaceNames == { <<" ">>, <<"A">>, <<"a">>, <<"B">>, <<"N", "A">> }

RaceTags == { <<"t">> }

sheet_at_write_reread(seen, current) == current

sheet_at_write(seen, current) == seen

RaceRead(p) ==
  /\ calls[p].pc = "idle"
  /\ \E name \in RaceNames, tag \in RaceTags :
       LET v == add_name(name, tag, <<>>, now)
       IN  calls' = [calls EXCEPT ![p] =
             IF v.accepted
               THEN [pc |-> "read", name |-> name, tag |-> tag,
                     seen |-> load_sheet(SubmissionsFile, submissions,
                                         unreadable),
                     readable |-> SubmissionsFile \notin unreadable,
                     accepted |-> FALSE, message |-> ""]
               ELSE [pc |-> "done", name |-> name, tag |-> tag,
                     seen |-> <<>>, readable |-> TRUE,
                     accepted |-> FALSE, message |-> v.message]]
  /\ UNCHANGED <<submissions, votes, votes_state, now, result, unreadable>>

RaceWrite(p) ==
  /\ calls[p].pc = "read"
  /\ LET c == calls[p]
         current == load_sheet(SubmissionsFile, submissions, unreadable)
         r == add_name(c.name, c.tag, sheet_at_write(c.seen, current), now)
     IN  /\ r.accepted => Len(r.submissions) <= MaxSubs
         /\ submissions' = IF r.accepted THEN r.submissions ELSE submissions
         /\ unreadable' = IF r.accepted THEN unreadable \ {SubmissionsFile}
                                        ELSE unreadable
         /\ calls' = [calls EXCEPT ![p] =
                        [c EXCEPT !.pc = "done", !.accepted = r.accepted,
                                  !.message = r.message]]
         /\ result' = [op |-> "add_name", name |-> c.name, tag |-> c.tag,
                       accepted |-> r.accepted, message |-> r.message,
                       readable |-> c.readable]
  /\ UNCHANGED <<votes, votes_state, now>>

NextRace ==
  \/ \E p \in Callers : RaceRead(p)
  \/ \E p \in Callers : RaceWrite(p)

SpecRace == Init /\ [][NextRace]_vars

(***************************************************************************)
(* add_name with a submissions workbook that can be damaged between the    *)
(* calls.                                                                  *)
(***************************************************************************)
Damage ==
  /\ \E file \in Files :
       /\ file \notin unreadable
       /\ unreadable' = unreadable \cup {file}
  /\ UNCHANGED <<submissions, votes, votes_state, now, result, calls>>

NextFault ==
  \/ AddName
  \/ Damage

SpecFault == Init /\ [][NextFault]_vars

(***************************************************************************)
(* What the program reads in the stores: the names of the submission rows  *)
(* and of the vote rows, as texts.                                         *)
(***************************************************************************)
SubNames ==
  [i \in 1..Len(submissions) |-> astype_str(read_cell(submissions[i].Name))]

VotedNames == [i \in 1..Len(votes) |-> astype_str(read_cell(votes[i]))]

InSeq(s, x) == \E i \in 1..Len(s) : s[i] = x

FirstIndex(s, x) ==
  CHOOSE i \in 1..Len(s) : s[i] = x /\ \A j \in 1..(i - 1) : s[j] # x

VoteCount(n) == Cardinality({ i \in 1..Len(VotedNames) : VotedNames[i] = n })

Orphans == { VotedNames[i] : i \in 1..Len(VotedNames) } \
             { SubNames[i] : i \in 1..Len(SubNames) }

BuildRank(n) ==
  IF InSeq(SubNames, n) THEN FirstIndex(SubNames, n)
  ELSE Len(SubNames) + FirstIndex(VotedNames, n)

Opened == now >= VOTING_START

(* C1: in every state reached from empty stores by add_name calls run one
   at a time, no two rows of the submissions store have names that are
   equal after lower-casing. *)
C1_UniqueNamesIgnoringCase ==
  \A i, j \in 1..Len(SubNames) :
    i # j => lower(SubNames[i]) # lower(SubNames[j])

(* C2: the budget of a session that starts at 3 and is fed back to every
   cast_votes call is never negative, and an accepted cast appends no more
   vote rows than the budget that remained before it. *)
C2_BudgetNeverNegative ==
  [][ /\ votes_state' >= 0
      /\ (CastVotes /\ result'.accepted)
           => Len(votes') - Len(votes) <= votes_state ]_vars

C2_BudgetSpent ==
  /\ result.op = "cast_votes"
  /\ result.accepted
  /\ votes_state = 0
  /\ Len(votes) = InitialBudget

(* C3: a declined add_name leaves the submissions store unchanged, and
   add_name is declined when the trimmed name is empty, when the trimmed
   tag is empty, and when the trimmed name equals a stored name in any
   case variation (the stored row is not duplicated). *)
C3_DeclinedSubmitKeepsStore ==
  [][ AddName =>
        LET name == strip(result'.name)
            tag == strip(result'.tag)
            stored == \E i \in 1..Len(submissions) :
                        lower(submissions[i].Name) = lower(name)
        IN  /\ ~result'.accepted => submissions' = submissions
            /\ (name = <<>> \/ tag = <<>> \/ stored)
                 => (~result'.accepted /\ submissions' = submissions) ]_vars

(* C4: before the opening instant cast_votes is declined whatever the
   selection and the remaining budget: it returns the remaining it was
   given, appends no vote row, and answers with the not-open message
   before any other check. *)
ClosedMessage ==
  Warn \o "Voting is not open yet. Please come back after "
       \o ToString(VOTING_START) \o "."

C4_ClosedBeforeOpening ==
  [][ (CastVotes /\ ~Opened) =>
        /\ ~result'.accepted
        /\ result'.remaining = votes_state
        /\ votes_state' = votes_state
        /\ votes' = votes
        /\ result'.message = ClosedMessage ]_vars

C4_OverBudgetWhileClosed ==
  /\ result.op = "cast_votes"
  /\ ~Opened
  /\ result.given = 1
  /\ Len(result.selected.v) = 2
  /\ result.message = ClosedMessage

(* C5: after opening, a cast of 2 names with budget 3 returns 1 with the
   plural message reporting 1 vote left and appends 2 vote rows; a cast of
   2 names with budget 1 is declined saying that exactly 1 more name is
   allowed, returns 1 and appends nothing.  An accepted cast of k names
   with remaining r returns r - k, in the singular form exactly when
   k = 1 and in the no-votes-left form exactly when r - k = 0. *)
SingularMessages ==
  { Ok \o "Vote recorded! You have no votes left." } \cup
  { Ok \o "Vote recorded! You have " \o ToString(n) \o " vote(s) left." :
      n \in 1..(MaxRemaining + 1) }

NoneLeftMessages ==
  { Ok \o "Vote recorded! You have no votes left.",
    Ok \o "Votes recorded! You have no votes left." }

C5_CastMessages ==
  [][ (CastVotes /\ Opened) =>
        LET k == Len(result'.selected.v)
            r == votes_state
        IN  /\ (r = 3 /\ k = 2) =>
                 /\ result'.remaining = 1
                 /\ result'.message =
                      Ok \o "Votes recorded! You have 1 vote(s) left."
                 /\ Len(votes') = Len(votes) + 2
            /\ (r = 1 /\ k = 2) =>
                 /\ ~result'.accepted
                 /\ result'.message =
                      Warn \o "You can only vote for 1 more name(s)."
                 /\ result'.remaining = 1
                 /\ votes' = votes
            /\ result'.accepted =>
                 /\ result'.remaining = r - k
                 /\ (result'.message \in SingularMessages) <=> (k = 1)
                 /\ (result'.message \in NoneLeftMessages) <=> (r - k = 0) ]_vars

C5_SecondCastDeclined ==
  /\ result.op = "cast_votes"
  /\ result.given = 1
  /\ Len(result.selected.v) = 2
  /\ ~result.accepted
  /\ result.message = Warn \o "You can only vote for 1 more name(s)."
  /\ votes_state = 1
  /\ Len(votes) = 2

(* C6: for every name and tag that are non-empty once trimmed, and from
   every reachable state in which no vote for that name is recorded,
   add_name followed by get_leaderboard gives a leaderboard with exactly
   one row for that name, holding 0 votes. *)
C6_SubmitThenLeaderboard ==
  [][ ( /\ result.op = "add_name"
        /\ strip(result.name) # <<>>
        /\ strip(result.tag) # <<>>
        /\ ~InSeq(votes, strip(result.name))
        /\ result'.op = "get_leaderboard" ) =>
        LET rows == result'.rows
            mine == { i \in 1..Len(rows) : rows[i][1] = strip(result.name) }
        IN  /\ Cardinality(mine) = 1
            /\ \A i \in mine : rows[i][2] = 0 ]_vars

(* C7: the rows of get_leaderboard are in descending order of votes, rows
   with equal votes keep the order in which they were built (submitted
   names in first-seen order, then orphan voted names in order of their
   first vote); submissions A, B, C with votes A:2, B:1 give
   (A,2), (B,1), (C,0). *)
ExampleRows == << <<(<<"A">>), 2>>, <<(<<"B">>), 1>>, <<(<<"C">>), 0>> >>

C7_SortedStable ==
  result.op = "get_leaderboard" =>
    LET rows == result.rows
    IN  /\ \A i, j \in 1..Len(rows) :
             i < j =>
               \/ rows[i][2] > rows[j][2]
               \/ /\ rows[i][2] = rows[j][2]
                  /\ BuildRank(rows[i][1]) < BuildRank(rows[j][1])
        /\ ( /\ SubNames = << <<"A">>, <<"B">>, <<"C">> >>
             /\ Len(votes) = 3
             /\ VoteCount(<<"A">>) = 2
             /\ VoteCount(<<"B">>) = 1 ) => rows = ExampleRows

C7_ExampleBoard ==
  /\ result.op = "get_leaderboard"
  /\ SubNames = << <<"A">>, <<"B">>, <<"C">> >>
  /\ result.rows = ExampleRows

(* C8, as claimed: a voted name without a submission row appears in the
   leaderboard with its vote count, after the rows of all submitted
   names. *)
C8_OrphanAfterAllKnown ==
  result.op = "get_leaderboard" =>
    LET rows == result.rows
    IN  \A o \in Orphans :
          /\ \E i \in 1..Len(rows) : rows[i] = <<o, VoteCount(o)>>
          /\ \A i, j \in 1..Len(rows) :
               (rows[i][1] = o /\ InSeq(SubNames, rows[j][1])) => j < i

(* C8, amended: a voted name without a submission row appears in the
   leaderboard with its vote count, after the rows of all submitted names
   that have at least as many votes. *)
C8_OrphanAfterKnownNotBelow ==
  result.op = "get_leaderboard" =>
    LET rows == result.rows
    IN  \A o \in Orphans :
          /\ \E i \in 1..Len(rows) : rows[i] = <<o, VoteCount(o)>>
          /\ \A i, j \in 1..Len(rows) :
               ( /\ rows[i][1] = o
                 /\ InSeq(SubNames, rows[j][1])
                 /\ rows[j][2] >= rows[i][2] ) => j < i

C8_OrphanTiedWithKnown ==
  /\ result.op = "get_leaderboard"
  /\ \E o \in Orphans :
       \E i, j \in 1..Len(result.rows) :
         /\ result.rows[i][1] = o
         /\ InSeq(SubNames, result.rows[j][1])
         /\ result.rows[j][2] = result.rows[i][2]
         /\ j < i

(* C9: get_leaderboard changes neither store, and two calls with no
   add_name or cast_votes in between return the same rows. *)
C9_LeaderboardReadOnly ==
  [][ /\ (result' # result /\ result'.op = "get_leaderboard")
           => (submissions' = submissions /\ votes' = votes)
      /\ (result.op = "get_leaderboard" /\ result'.op = "get_leaderboard")
           => result'.rows = result.rows ]_vars

C9_CalledTwice ==
  /\ result.op = "get_leaderboard"
  /\ result.again
  /\ Len(result.rows) >= 2

(* C10: cast_votes with remaining 0 is declined for every selection size
   and at every time: it returns 0 and appends no vote row. *)
C10_NoBudgetDeclined ==
  [][ (CastVotes /\ votes_state = 0) =>
        /\ ~result'.accepted
        /\ result'.remaining = 0
        /\ votes' = votes ]_vars

C10_DeclinedWhenOpen ==
  /\ result.op = "cast_votes"
  /\ result.given = 0
  /\ Len(result.selected.v) = 2
  /\ Opened
  /\ ~result.accepted

(* C11: once the gate has passed, cast_votes checks in this order: empty
   selection, remaining <= 0, selection larger than remaining.  The first
   failing check decides the answer (an empty selection with remaining 0
   is answered "no names selected"), and every declined call returns the
   remaining it was given and appends no vote row. *)
NoNamesMessage == Warn \o "No names selected. Please choose up to 3."

NoVotesMessage == Warn \o "You have no votes remaining."

OnlyMoreMessage(r) ==
  Warn \o "You can only vote for " \o ToString(r) \o " more name(s)."

C11_CheckOrder ==
  [][ (CastVotes /\ Opened) =>
        LET k == Len(result'.selected.v)
            r == votes_state
        IN  /\ k = 0 =>
                 (~result'.accepted /\ result'.message = NoNamesMessage)
            /\ (k > 0 /\ r <= 0) =>
                 (~result'.accepted /\ result'.message = NoVotesMessage)
            /\ (k > 0 /\ r > 0 /\ k > r) =>
                 (~result'.accepted /\ result'.message = OnlyMoreMessage(r))
            /\ (k > 0 /\ r > 0 /\ k <= r) => result'.accepted
            /\ ~result'.accepted =>
                 /\ result'.remaining = r
                 /\ votes_state' = r
                 /\ votes' = votes ]_vars

C11_EmptyWithNoBudget ==
  /\ result.op = "cast_votes"
  /\ result.given = 0
  /\ result.selected = List(<<>>)
  /\ result.message = NoNamesMessage

(* C12: an accepted cast_votes appends one vote row per entry of the
   selection, in selection order and after the rows already stored (which
   still read as before), keeps a name selected twice as two rows, leaves
   the submissions store unchanged and returns the remaining budget minus
   the length of the selection. *)
C12_AcceptedCastAppends ==
  [][ (CastVotes /\ result'.accepted) =>
        LET sel == result'.selected.v
            k == Len(sel)
        IN  /\ Len(votes') = Len(votes) + k
            /\ SubSeq(votes', Len(votes) + 1, Len(votes')) = sel
            /\ \A i \in 1..Len(votes) :
                 astype_str(read_cell(votes'[i]))
                   = astype_str(read_cell(votes[i]))
            /\ submissions' = submissions
            /\ result'.remaining = votes_state - k
            /\ votes_state' = votes_state - k ]_vars

C12_RepeatedNameAppended ==
  /\ result.op = "cast_votes"
  /\ result.accepted
  /\ result.selected = List(<< <<"A">>, <<"A">> >>)
  /\ Len(votes) >= 3
  /\ SubSeq(votes, Len(votes) - 1, Len(votes)) = << <<"A">>, <<"A">> >>

(* C13: with operations run one at a time on readable stores, both stores
   only grow at the end: after every add_name, cast_votes and
   get_leaderboard call the earlier content of each store is a prefix of
   the later content, every stored row unchanged at its position. *)
IsPrefix(s, t) == Len(s) <= Len(t) /\ SubSeq(t, 1, Len(s)) = s

C13_AppendOnlyStores ==
  [][ IsPrefix(submissions, submissions') /\ IsPrefix(votes, votes') ]_vars

(* C15: get_leaderboard drops every submission row whose name is empty or
   missing: no leaderboard row comes from such a row, and the names that
   remain appear once each. *)
PresentNames ==
  SelectSeq([i \in 1..Len(submissions) |-> read_cell(submissions[i].Name)],
            LAMBDA v : v # NaN)

C15_MissingNamesDropped ==
  result.op = "get_leaderboard" =>
    LET rows == result.rows
    IN  /\ \A i \in 1..Len(rows) :
             InSeq(PresentNames, rows[i][1]) \/ InSeq(VotedNames, rows[i][1])
        /\ \A i, j \in 1..Len(rows) : rows[i][1] = rows[j][1] => i = j
        /\ \A k \in 1..Len(PresentNames) :
             \E i \in 1..Len(rows) : rows[i][1] = PresentNames[k]

(* C16: get_leaderboard returns exactly one row per distinct name, the
   submitted names and the orphan voted names, and the count of a row is
   the number of vote rows whose stored name equals the name of the row
   exactly, case included: a vote for a name that differs from a submitted
   name only in case is not counted for it. *)
StoredVoteCount(n) == Cardinality({ i \in 1..Len(votes) : votes[i] = n })

C16_ExactCounts ==
  result.op = "get_leaderboard" =>
    LET rows == result.rows
        names == { SubNames[i] : i \in 1..Len(SubNames) } \cup Orphans
    IN  /\ { rows[i][1] : i \in 1..Len(rows) } = names
        /\ Len(rows) = Cardinality(names)
        /\ \A i \in 1..Len(rows) : rows[i][2] = StoredVoteCount(rows[i][1])

(* C19: with operations run one at a time, after any sequence of
   cast_votes calls of one session that starts with budget 3, the number
   of vote rows the session has appended is 3 minus its remaining budget,
   so at most 3. *)
C19_VotesMatchBudget ==
  /\ Len(votes) = InitialBudget - votes_state
  /\ Len(votes) <= InitialBudget

C19_TwoVotesCast ==
  /\ result.op = "cast_votes"
  /\ result.accepted
  /\ Len(result.selected.v) = 2
  /\ votes_state = 1
  /\ Len(votes) = 2

(* C20: the vote counts of the rows of get_leaderboard add up to the
   number of rows of the votes store: every vote row is counted, and in
   one row only. *)
RECURSIVE SumOfVotes(_)
SumOfVotes(rows) ==
  IF rows = <<>> THEN 0 ELSE rows[1][2] + SumOfVotes(Tail(rows))

C20_CountsAddUp ==
  result.op = "get_leaderboard" => SumOfVotes(result.rows) = Len(votes)

C20_OrphanAndKnownCounted ==
  /\ result.op = "get_leaderboard"
  /\ Len(votes) = 3
  /\ Orphans # {}
  /\ \E i \in 1..Len(result.rows) :
       InSeq(SubNames, result.rows[i][1]) /\ result.rows[i][2] > 0

(***************************************************************************)
(* C17: when the submissions workbook cannot be read, add_name with a      *)
(* non-empty name and a non-empty tag goes on as if the store were empty:  *)
(* the call is accepted and the workbook is rewritten to hold exactly the  *)
(* one new record.                                                         *)
(***************************************************************************)
NewRecord(name, tag, clock) ==
  [Name |-> strip(name), Tag |-> strip(tag), Timestamp |-> clock]

C17_UnreadableStoreTreatedAsEmpty ==
  [][ ( /\ AddName
        /\ SubmissionsFile \in unreadable
        /\ strip(result'.name) # <<>>
        /\ strip(result'.tag) # <<>> )
      => ( /\ result'.accepted
           /\ submissions' = << NewRecord(result'.name, result'.tag, now) >>
           /\ SubmissionsFile \notin unreadable' ) ]_vars

C17_RewrittenAfterDamage ==
  /\ result.op = "add_name"
  /\ ~result.readable
  /\ result.accepted
  /\ Len(submissions) = 1
  /\ submissions[1].Name = <<"A">>
  /\ SubmissionsFile \notin unreadable

(***************************************************************************)
(* C14: add_name calls interleaved between their read of the workbook and  *)
(* their rewrite of it lose updates.  An accepted rewrite stores the sheet *)
(* the call read plus its own row, whatever was written since: a call for  *)
(* a different name that read the same sheet and has already returned a    *)
(* success message has no row in the store afterwards.                     *)
(***************************************************************************)
Succeeded(p) == calls[p].pc = "done" /\ calls[p].accepted

SubmittedMessage(name, tag, clock) ==
  Ok \o "Team name '" \o Text(strip(name)) \o "' with tag '"
     \o Text(strip(tag)) \o "' submitted successfully at "
     \o ToString(clock) \o "!"

C14_LastRewriteWins ==
  [][ \A q \in Callers :
        (RaceWrite(q) /\ calls'[q].accepted)
        => /\ Len(submissions') = Len(calls[q].seen) + 1
           /\ submissions'[Len(submissions')].Name = strip(calls[q].name)
           /\ result'.message = SubmittedMessage(calls[q].name, calls[q].tag, now)
           /\ \A p \in Callers \ {q} :
                ( /\ Succeeded(p)
                  /\ calls[p].seen = calls[q].seen
                  /\ strip(calls[p].name) # strip(calls[q].name) )
                => \A i \in 1..Len(submissions') :
                     submissions'[i].Name # strip(calls[p].name) ]_vars

C14_LostUpdate ==
  \E p, q \in Callers :
    /\ p # q
    /\ Succeeded(p) /\ Succeeded(q)
    /\ calls[p].name = <<"A">> /\ calls[q].name = <<"B">>
    /\ calls[p].seen = <<>> /\ calls[q].seen = <<>>
    /\ submissions = << NewRecord(<<"B">>, <<"t">>, now) >>

(***************************************************************************)
(* C18: with add_name calls interleaved between their read and their       *)
(* rewrite, no two rows of the submissions store have names that are equal *)
(* after lower-casing, and the sheet every call read had no two such rows. *)
(***************************************************************************)
NamesOf(sheet) ==
  [i \in 1..Len(sheet) |-> lower(astype_str(read_cell(sheet[i].Name)))]

DuplicateFree(sheet) ==
  \A i, j \in 1..Len(sheet) : i # j => NamesOf(sheet)[i] # NamesOf(sheet)[j]

C18_UniqueNamesInterleaved ==
  /\ DuplicateFree(submissions)
  /\ \A p \in Callers : DuplicateFree(calls[p].seen)

====
